---- MODULE Spec2Model ----
(***************************************************************************)
(* A model of the MHWorldData build: the database build orchestrator       *)
(* (src/build.py) and the dictionary/collection utilities it rests on      *)
(* (src/mhdata/util/__init__.py).                                          *)
(*                                                                         *)
(* The build is a state machine over the program counter of                *)
(* build_database; the utilities are pure functions, modelled as operators *)
(* and exercised by specifications whose Init draws their arguments.       *)
(***************************************************************************)
EXTENDS Integers, Sequences, FiniteSets, TLC

VARIABLES
    \* ---- build_database (src/build.py) ----
    pc,             \* position in build_database
    idBase,         \* identifier of the first entry of every base map
    idOfRaises,     \* failure mode of the reader's id_of on an absent name
    monster_map,    \* monsters: rewards and habitats
    armor_map,      \* armor entries: set, skills, craft
    weapon_data,    \* weapon entries: previous, craft, upgrade
    decoration_map, \* decoration entries: skill_en
    charm_map,      \* charm entries: skills, craft
    session,        \* rows added to the open session, not yet committed
    committed,      \* rows of the database file
    inScope,        \* inside the "with db.session_scope" block
    warnings,       \* lines printed by ensure_warn
    error,          \* the exception that ended the run, or NoError
    all_final,      \* build_weapons' set of final weapon ids
    \* ---- a call of one utility function ----
    call,           \* the function and its arguments
    ret             \* what the call returned or raised; NotRun before it

buildVars == <<pc, idBase, idOfRaises, monster_map, armor_map, weapon_data,
               decoration_map, charm_map, session, committed, inScope,
               warnings, error, all_final>>
callVars == <<call, ret>>
vars == <<pc, idBase, idOfRaises, monster_map, armor_map, weapon_data,
          decoration_map, charm_map, session, committed, inScope,
          warnings, error, all_final, call, ret>>

NotRun == [state |-> "not run"]
NoError == [kind |-> "none"]
None == [none |-> TRUE]

\* The build variables of a specification that only calls a utility.
BuildIdle ==
    /\ pc = "idle" /\ idBase = 1 /\ idOfRaises = FALSE
    /\ monster_map = <<>> /\ armor_map = <<>> /\ weapon_data = <<>>
    /\ decoration_map = <<>> /\ charm_map = <<>>
    /\ session = {} /\ committed = {} /\ inScope = FALSE
    /\ warnings = {} /\ error = NoError /\ all_final = {}

\* The call variables of a specification that only runs the build.
CallIdle == call = [op |-> "none"] /\ ret = NotRun

\* ------------------------------------------------------------------------
\* Sequences and sets
\* ------------------------------------------------------------------------

Range(s) == {s[i] : i \in DOMAIN s}

\* All sequences over S of length 0..n.
SeqsUpTo(S, n) == UNION {[1..k -> S] : k \in 0..n}

RECURSIVE SumSeq(_)
SumSeq(s) == IF s = <<>> THEN 0 ELSE Head(s) + SumSeq(Tail(s))

\* ------------------------------------------------------------------------
\* get_duplicates (src/mhdata/util/__init__.py:21-31)
\* ------------------------------------------------------------------------

\* The loop of get_duplicates from position i on, with the locals seen and
\* duplicates.
RECURSIVE get_duplicates_loop(_, _, _, _)
get_duplicates_loop(iterable, i, seen, duplicates) ==
    IF i > Len(iterable) THEN duplicates
    ELSE LET item == iterable[i] IN
         IF item \in seen
         THEN get_duplicates_loop(iterable, i + 1, seen, Append(duplicates, item))
         ELSE get_duplicates_loop(iterable, i + 1, seen \cup {item}, duplicates)

\* A variant that also records a repeated item as seen-twice and reports it once.
get_duplicates_once(iterable) ==
    LET RECURSIVE loop(_, _, _)
        loop(i, seen, duplicates) ==
            IF i > Len(iterable) THEN duplicates
            ELSE LET item == iterable[i] IN
                 IF item \in seen
                 THEN loop(i + 1, seen,
                           IF item \in Range(duplicates) THEN duplicates
                           ELSE Append(duplicates, item))
                 ELSE loop(i + 1, seen \cup {item}, duplicates)
    IN loop(1, {}, <<>>)

get_duplicates(iterable) == get_duplicates_loop(iterable, 1, {}, <<>>)

\* ---- the specification of a get_duplicates call ----

MaxDupLen == 4
DupItems == {"a", "b", "c"}

InitDup ==
    /\ BuildIdle
    /\ \E s \in SeqsUpTo(DupItems, MaxDupLen) :
          call = [op |-> "get_duplicates", iterable |-> s]
    /\ ret = NotRun

CallGetDuplicates ==
    /\ call.op = "get_duplicates" /\ ret = NotRun
    /\ ret' = [value |-> get_duplicates(call.iterable)]
    /\ UNCHANGED <<call, buildVars>>

NextDup == CallGetDuplicates
SpecDup == InitDup /\ [][NextDup]_vars

\* Positions of seq that repeat an earlier element.
RepeatPositions(seq) == {i \in DOMAIN seq : \E j \in 1..(i - 1) : seq[j] = seq[i]}

\* The subsequence of seq at the positions P, in order.
RECURSIVE SubSeqAt(_, _, _)
SubSeqAt(seq, P, i) ==
    IF i > Len(seq) THEN <<>>
    ELSE IF i \in P THEN <<seq[i]>> \o SubSeqAt(seq, P, i + 1)
    ELSE SubSeqAt(seq, P, i + 1)

Distinct(seq) == \A i, j \in DOMAIN seq : i # j => seq[i] # seq[j]

\* C9 (as stated): get_duplicates returns the elements that occur more than
\* once, each listed exactly once, in the order of their first repeated
\* occurrence.
C9_Original ==
    ret # NotRun =>
        /\ Range(ret.value) = {x \in Range(call.iterable) :
                Cardinality({i \in DOMAIN call.iterable : call.iterable[i] = x}) > 1}
        /\ Distinct(ret.value)

\* C9 (amended): get_duplicates returns every occurrence that repeats an
\* earlier element, in input order, so an element occurring k >= 2 times is
\* listed k - 1 times; the result is empty iff all elements are distinct.
C9_Duplicates ==
    ret # NotRun =>
        /\ ret.value = SubSeqAt(call.iterable, RepeatPositions(call.iterable), 1)
        /\ \A x \in Range(call.iterable) :
              Cardinality({i \in DOMAIN ret.value : ret.value[i] = x})
                = Cardinality({i \in DOMAIN call.iterable : call.iterable[i] = x}) - 1
        /\ (ret.value = <<>>) <=> Distinct(call.iterable)

\* C9 witness: a call on a sequence with an element occurring three times
\* has returned, listing that element twice.
C9_Witness ==
    /\ ret # NotRun
    /\ call.iterable = <<"a", "b", "a", "a">>
    /\ ret.value = <<"a", "a">>

\* ------------------------------------------------------------------------
\* Values: scalars, sequences and mappings
\* ------------------------------------------------------------------------

\* A value of the loosely typed data: a scalar, a sequence (immutable once
\* built: the code only ever concatenates into a new one), or a mapping.
\* In a tree a mapping is held by value (D); in the heap every mapping is an
\* object and is held by reference (R), as Python holds it.
S(v) == [sv |-> v]
L(s) == [lv |-> s]
D(f) == [dv |-> f]
R(a) == [ref |-> a]

EmptyMap == [k \in {} |-> None]

\* typecheck.is_dict, typecheck.is_list, typecheck.is_scalar (mhdata.typecheck)
is_dict(v) == "dv" \in DOMAIN v \/ "ref" \in DOMAIN v
is_list(v) == "lv" \in DOMAIN v
is_scalar(v) == "sv" \in DOMAIN v

\* Strings are sequences of characters, so that concatenation, prefixes and
\* slices are what they are in the code.
Str(c) == <<c>>

\* The iteration order of a mapping's keys (dict.items()): the order the
\* keys were written in, which for the argument mappings is KeyOrder
\* (the last three keys hold a separator of flatten_dict, or are empty).
KeyOrder ==
    <<Str("a"), Str("b"), Str("x"), Str("y"),
      <<"a", "/", "b">>, <<"a", "[", "0", "]">>, <<>>>>
KeysOf(f) == SelectSeq(KeyOrder, LAMBDA k : k \in DOMAIN f)

\* ---- the heap: address -> mapping object ----

\* Copies the tree mapping f into the heap h as fresh objects;
\* returns the new heap and the address of the copy.
RECURSIVE AllocItems(_, _, _, _)
AllocItems(h, f, ks, obj) ==
    IF ks = <<>> THEN [h |-> Append(h, obj), a |-> Len(h) + 1]
    ELSE LET k == Head(ks)
             v == f[k]
         IN IF "dv" \in DOMAIN v
            THEN LET r == AllocItems(h, v.dv, KeysOf(v.dv), EmptyMap)
                 IN AllocItems(r.h, f, Tail(ks), obj @@ (k :> R(r.a)))
            ELSE AllocItems(h, f, Tail(ks), obj @@ (k :> v))

Alloc(h, f) == AllocItems(h, f, KeysOf(f), EmptyMap)

\* Allocates a sequence of tree mappings; returns the heap and their addresses.
RECURSIVE AllocAll(_, _, _)
AllocAll(h, fs, addrs) ==
    IF fs = <<>> THEN [h |-> h, addrs |-> addrs]
    ELSE LET r == Alloc(h, Head(fs))
         IN AllocAll(r.h, Tail(fs), Append(addrs, r.a))

\* The tree a heap value stands for.
RECURSIVE Deref(_, _)
Deref(h, v) ==
    IF "ref" \in DOMAIN v
    THEN D([k \in DOMAIN h[v.ref] |-> Deref(h, h[v.ref][k])])
    ELSE v

\* ------------------------------------------------------------------------
\* joindicts (src/mhdata/util/__init__.py:34-59)
\* ------------------------------------------------------------------------

\* The collision error of line 56-57: the key path and both values.
CollisionError(h, path, value, existing_value) ==
    [kind |-> "collision", key |-> path,
     value |-> Deref(h, value), existing |-> Deref(h, existing_value)]

\* result[key] = value (lines 46, 52, 54): existing_value is what the key held.
Store(h, dest, key, value, existing_value) ==
    [h EXCEPT ![dest] = [k \in DOMAIN @ \cup {key} |-> IF k = key THEN value ELSE @[k]]]

\* A merge in which a colliding value is never refused.
ScalarsAlwaysAgree(existing_value, value) == TRUE

\* Whether line 55's "existing_value != value" lets the merge go on.
ScalarsAgree(existing_value, value) == existing_value = value

\* A merge in which the source's sequence replaces the existing one.
MergeListsReplaced(existing_value, value) == value

\* existing_value + value (line 54)
MergeLists(existing_value, value) == L(existing_value.lv \o value.lv)

\* joindicts(dest, *dictlist, prefix): h is the heap, dest an address,
\* dictlist a sequence of addresses. Returns the heap after the call, the
\* error raised (or NoError) and the address returned.
RECURSIVE joindicts(_, _, _, _), joindicts_items(_, _, _, _, _)
joindicts(h, dest, dictlist, prefix) ==
    IF dictlist = <<>> THEN [h |-> h, err |-> NoError, result |-> dest]
    ELSE LET inputdict == Head(dictlist)
             r == joindicts_items(h, dest, inputdict, KeysOf(h[inputdict]), prefix)
         IN IF r.err # NoError THEN r
            ELSE joindicts(r.h, dest, Tail(dictlist), prefix)

\* The inner loop (lines 43-57) over the keys ks of inputdict still to visit.
joindicts_items(h, dest, inputdict, ks, prefix) ==
    IF ks = <<>> THEN [h |-> h, err |-> NoError, result |-> dest]
    ELSE
    LET key == Head(ks)
        value == h[inputdict][key]
    IN  IF key \notin DOMAIN h[dest]
        THEN \* a new value is taken as is (a mapping: by reference)
             joindicts_items(Store(h, dest, key, value, None), dest, inputdict, Tail(ks), prefix)
        ELSE
        LET existing_value == h[dest][key]
        IN  IF is_dict(existing_value) /\ is_dict(value)
            THEN LET r == joindicts(h, existing_value.ref, <<value.ref>>,
                                    prefix \o key \o Str("."))
                 IN IF r.err # NoError THEN [r EXCEPT !.result = dest]
                    ELSE joindicts_items(Store(r.h, dest, key, R(r.result), existing_value),
                                         dest, inputdict, Tail(ks), prefix)
            ELSE IF is_list(existing_value) /\ is_list(value)
            THEN joindicts_items(
                    Store(h, dest, key, MergeLists(existing_value, value), existing_value),
                    dest, inputdict, Tail(ks), prefix)
            ELSE IF ~ScalarsAgree(existing_value, value)
            THEN [h |-> h, result |-> dest,
                  err |-> CollisionError(h, prefix \o key, value, existing_value)]
            ELSE joindicts_items(h, dest, inputdict, Tail(ks), prefix)

\* ---- the specification of a joindicts call ----

MaxSources == 2

\* The argument mappings: one top-level key, holding a scalar, a sequence or
\* a nested mapping over two keys.
JoinInner ==
    UNION {[K -> {S(1), S(2), L(<<1>>)}] : K \in SUBSET {Str("x"), Str("y")}}
JoinInnerSmall ==
    {f \in JoinInner : \A k \in DOMAIN f :
        f[k] \in (IF k = Str("x") THEN {S(1), S(2)} ELSE {S(1), L(<<1>>)})}
JoinTopValues ==
    {S(1), S(2), L(<<1>>), L(<<2>>)} \cup {D(f) : f \in JoinInnerSmall}
JoinMaps == UNION {[K -> JoinTopValues] : K \in SUBSET {Str("a")}}

InitJoin ==
    /\ BuildIdle
    /\ \E dest \in JoinMaps, sources \in SeqsUpTo(JoinMaps, MaxSources) :
          call = [op |-> "joindicts", dest |-> dest, sources |-> sources]
    /\ ret = NotRun

\* joindicts(dest, *sources) on freshly built arguments: every mapping of
\* every argument is an object of its own.
CallJoindicts ==
    /\ call.op = "joindicts" /\ ret = NotRun
    /\ LET d == Alloc(<<>>, call.dest)
           a == AllocAll(d.h, call.sources, <<>>)
           r == joindicts(a.h, d.a, a.addrs, <<>>)
       IN ret' = [err |-> r.err, result |-> r.result, dest |-> d.a,
                  sources |-> a.addrs, before |-> a.h, after |-> r.h]
    /\ UNCHANGED <<call, buildVars>>

NextJoin == CallJoindicts
SpecJoin == InitJoin /\ [][NextJoin]_vars

\* ---- what the merge is to be, on trees ----

\* The collisions of merging mapping g into mapping f that are to be fatal:
\* the key paths at which both hold a value, the two are neither both
\* mappings nor both sequences, and they differ.
RECURSIVE Conflicts(_, _, _)
Conflicts(f, g, prefix) ==
    UNION {
        IF "dv" \in DOMAIN f[k] /\ "dv" \in DOMAIN g[k]
        THEN Conflicts(f[k].dv, g[k].dv, prefix \o k \o Str("."))
        ELSE IF "lv" \in DOMAIN f[k] /\ "lv" \in DOMAIN g[k] THEN {}
        ELSE IF f[k] # g[k]
        THEN {[kind |-> "collision", key |-> prefix \o k,
               value |-> g[k], existing |-> f[k]]}
        ELSE {}
        : k \in DOMAIN f \cap DOMAIN g}

\* The deep merge of mapping g into mapping f.
RECURSIVE Merge(_, _)
Merge(f, g) ==
    [k \in DOMAIN f \cup DOMAIN g |->
        IF k \notin DOMAIN g THEN f[k]
        ELSE IF k \notin DOMAIN f THEN g[k]
        ELSE IF "dv" \in DOMAIN f[k] /\ "dv" \in DOMAIN g[k]
        THEN D(Merge(f[k].dv, g[k].dv))
        ELSE IF "lv" \in DOMAIN f[k] /\ "lv" \in DOMAIN g[k]
        THEN L(f[k].lv \o g[k].lv)
        ELSE f[k]]

\* The sources merged into acc left to right, up to the first source that
\* collides: the merge so far and that source's collisions.
RECURSIVE MergeAll(_, _)
MergeAll(acc, sources) ==
    IF sources = <<>> THEN [tree |-> acc, conflicts |-> {}]
    ELSE LET c == Conflicts(acc, Head(sources), <<>>)
         IN IF c # {} THEN [tree |-> acc, conflicts |-> c]
            ELSE MergeAll(Merge(acc, Head(sources)), Tail(sources))

\* Every scalar of mapping f is still where it was, unchanged, in mapping g.
RECURSIVE ScalarsKept(_, _)
ScalarsKept(f, g) ==
    \A k \in DOMAIN f :
        /\ k \in DOMAIN g
        /\ "sv" \in DOMAIN f[k] => g[k] = f[k]
        /\ "dv" \in DOMAIN f[k] =>
              "dv" \in DOMAIN g[k] /\ ScalarsKept(f[k].dv, g[k].dv)

DestAfter == Deref(ret.after, R(ret.dest)).dv

C4_DeepMerge ==
    (ret # NotRun /\ ret.err = NoError) =>
        /\ ret.result = ret.dest
        /\ DestAfter = MergeAll(call.dest, call.sources).tree
        /\ call.sources = <<>> => DestAfter = call.dest

\* C4 witness: a call with two sources has returned a dest in which a nested
\* mapping was merged recursively and a nested sequence concatenated.
C4_Witness ==
    /\ ret # NotRun /\ ret.err = NoError
    /\ call.dest = (Str("a") :> D(Str("x") :> S(1)))
    /\ Len(call.sources) = 2
    /\ DestAfter = (Str("a") :> D((Str("x") :> S(1)) @@ (Str("y") :> L(<<1, 1>>))))

\* ------------------------------------------------------------------------
\* Ordered mappings: a Python dict as the sequence of its (key, value) items
\* ------------------------------------------------------------------------

ItemKeys(d) == {d[i][1] : i \in DOMAIN d}
Has(d, key) == key \in ItemKeys(d)
Get(d, key) == LET i == CHOOSE i \in DOMAIN d : d[i][1] = key IN d[i][2]

\* d[key] = value: a key already present keeps its place.
Put(d, key, value) ==
    IF Has(d, key)
    THEN [i \in DOMAIN d |-> IF d[i][1] = key THEN <<key, value>> ELSE d[i]]
    ELSE Append(d, <<key, value>>)

\* A nested ordered mapping as a value.
G(d) == [gv |-> d]
IsMapping(v) == "gv" \in DOMAIN v

\* The contents of an ordered mapping, whatever the order of its items.
RECURSIVE Contents(_)
Contents(d) ==
    [key \in ItemKeys(d) |->
        LET v == Get(d, key) IN IF IsMapping(v) THEN G(Contents(v.gv)) ELSE v]

\* str.startswith
StartsWith(str, head) ==
    Len(head) <= Len(str) /\ SubSeq(str, 1, Len(head)) = head

\* ------------------------------------------------------------------------
\* check_not_grouped, group_fields, ungroup_fields
\* (src/mhdata/util/__init__.py:71-115)
\* ------------------------------------------------------------------------

check_not_grouped(obj, groups) ==
    SelectSeq(groups, LAMBDA group : ~(Has(obj, group) /\ IsMapping(Get(obj, group))))

\* The loop of group_fields (lines 88-98) from item i of obj on.
RECURSIVE group_fields_loop(_, _, _, _)
group_fields_loop(obj, groups, i, result) ==
    IF i > Len(obj) THEN [err |-> NoError, value |-> result]
    ELSE
    LET key == obj[i][1]
        value == obj[i][2]
        group_results == SelectSeq(groups, LAMBDA g : StartsWith(key, g \o Str("_")))
    IN  IF group_results = <<>>
        THEN group_fields_loop(obj, groups, i + 1, Put(result, key, value))
        ELSE
        LET group_name == group_results[1]
            subkey == SubSeq(key, Len(group_name) + 2, Len(key))
            \* result.setdefault(group_name, {})
            group == IF Has(result, group_name) THEN Get(result, group_name) ELSE G(<<>>)
        IN  IF ~IsMapping(group)
            THEN \* group[subkey] = value on a scalar
                 [err |-> [kind |-> "TypeError", key |-> key], value |-> result]
            ELSE group_fields_loop(obj, groups, i + 1,
                    Put(result, group_name, G(Put(group.gv, subkey, value))))

group_fields(obj, groups) ==
    group_fields_loop(obj, check_not_grouped(obj, groups), 1, <<>>)

\* result[f"{key}_{subkey}"] = subvalue for every item of the group (112-113).
RECURSIVE ungroup_items(_, _, _, _)
ungroup_items(key, group, j, result) ==
    IF j > Len(group) THEN result
    ELSE ungroup_items(key, group, j + 1,
            Put(result, key \o Str("_") \o group[j][1], group[j][2]))

\* The loop of ungroup_fields (lines 106-113) from item i of obj on.
RECURSIVE ungroup_fields_loop(_, _, _, _)
ungroup_fields_loop(obj, groups, i, result) ==
    IF i > Len(obj) THEN [err |-> NoError, value |-> result]
    ELSE
    LET key == obj[i][1]
        value == obj[i][2]
    IN  IF key \notin Range(groups)
        THEN ungroup_fields_loop(obj, groups, i + 1, Put(result, key, value))
        ELSE IF ~IsMapping(value)
        THEN \* value.items() on a scalar
             [err |-> [kind |-> "AttributeError", key |-> key], value |-> result]
        ELSE ungroup_fields_loop(obj, groups, i + 1,
                ungroup_items(key, value.gv, 1, result))

ungroup_fields(obj, groups) == ungroup_fields_loop(obj, groups, 1, <<>>)

\* ---- the specification of group_fields followed by ungroup_fields ----

MaxFields == 2
MaxGroups == 2

FieldKeys ==
    {Str("s"), <<"s", "_", "a">>, <<"s", "_", "t", "_", "a">>, <<"t", "_", "a">>,
     Str("o")}
GroupNames == {Str("s"), Str("t"), <<"s", "_", "t">>}

\* The mappings with distinct string keys and scalar values.
FieldObjects ==
    {obj \in SeqsUpTo(FieldKeys \X {S(1), S(2)}, MaxFields) :
        \A i, j \in DOMAIN obj : i # j => obj[i][1] # obj[j][1]}

InitGroup ==
    /\ BuildIdle
    /\ \E obj \in FieldObjects, groups \in SeqsUpTo(GroupNames, MaxGroups) :
          call = [op |-> "group_fields", obj |-> obj, groups |-> groups]
    /\ ret = NotRun

CallGroupFields ==
    /\ call.op = "group_fields" /\ ret = NotRun
    /\ LET r == group_fields(call.obj, call.groups)
       IN ret' = [stage |-> "grouped", err |-> r.err, value |-> r.value]
    /\ UNCHANGED <<call, buildVars>>

\* ungroup_fields of what group_fields returned, with the same groups.
CallUngroupFields ==
    /\ call.op = "group_fields" /\ ret # NotRun
    /\ ret.stage = "grouped" /\ ret.err = NoError
    /\ LET r == ungroup_fields(ret.value, call.groups)
       IN ret' = [stage |-> "ungrouped", err |-> r.err, value |-> r.value,
                  grouped |-> ret.value]
    /\ UNCHANGED <<call, buildVars>>

NextGroup == CallGroupFields \/ CallUngroupFields
SpecGroup == InitGroup /\ [][NextGroup]_vars

\* C8: group_fields completes without error and ungroup_fields of its
\* result, with the same groups, completes and equals the original mapping
\* (same keys, same values), for every mapping with string keys and scalar
\* values and every list of group names.
C8_RoundTrip ==
    ret # NotRun =>
        /\ ret.err = NoError
        /\ ret.stage = "ungrouped" => Contents(ret.value) = Contents(call.obj)

\* The round trip does hold when no key of the mapping is itself one of the
\* group names (several group names may still be prefixes of one key).
RoundTripWithoutGroupNamedKey ==
    (ret # NotRun /\ ItemKeys(call.obj) \cap Range(call.groups) = {}) =>
        /\ ret.err = NoError
        /\ ret.stage = "ungrouped" => Contents(ret.value) = Contents(call.obj)

\* ------------------------------------------------------------------------
\* flatten_dict (src/mhdata/util/__init__.py:117-145)
\* ------------------------------------------------------------------------

\* A node that is neither a mapping, a sequence nor a scalar.
Other == [other |-> TRUE]

\* str(idx)
Digits == <<"0", "1", "2", "3", "4", "5", "6", "7", "8", "9">>
RECURSIVE IntStr(_)
IntStr(n) == IF n < 10 THEN Str(Digits[n + 1]) ELSE IntStr(n \div 10) \o Str(Digits[(n % 10) + 1])

\* f'{prefix}[{idx}]' (lines 139, 141); enumerate counts from 0.
IndexKey(prefix, idx) == prefix \o Str("[") \o IntStr(idx) \o Str("]")

\* A prefix that is never given its separator.
DictPrefixBare(prefix) == prefix

\* Lines 128-129: a mapping below the root adds a / behind its prefix.
DictPrefix(prefix) == IF prefix # <<>> THEN prefix \o Str("/") ELSE prefix

\* result[key] = value
SetItem(result, key, value) ==
    [k \in DOMAIN result \cup {key} |-> IF k = key THEN value ELSE result[k]]

UnsupportedType == [kind |-> "Unsupported type"]

\* flatten_dict(d, prefix, result): returns the error raised (or NoError)
\* and the result mapping, a function from path to scalar.
RECURSIVE flatten_dict(_, _, _), flatten_items(_, _, _, _), flatten_elems(_, _, _, _)
flatten_dict(d, prefix, result) ==
    IF is_dict(d)
    THEN flatten_items(d.dv, KeysOf(d.dv), DictPrefix(prefix), result)
    ELSE IF is_list(d)
    THEN flatten_elems(d.lv, 1, prefix, result)
    ELSE [err |-> UnsupportedType, value |-> result]

\* The loop of lines 131-135 over the keys ks still to visit.
flatten_items(f, ks, prefix, result) ==
    IF ks = <<>> THEN [err |-> NoError, value |-> result]
    ELSE LET key == Head(ks)
             value == f[key]
         IN IF is_scalar(value)
            THEN flatten_items(f, Tail(ks), prefix, SetItem(result, prefix \o key, value))
            ELSE LET r == flatten_dict(value, prefix \o key, result)
                 IN IF r.err # NoError THEN r
                    ELSE flatten_items(f, Tail(ks), prefix, r.value)

\* The loop of lines 137-141 from element i (index i - 1) on.
flatten_elems(l, i, prefix, result) ==
    IF i > Len(l) THEN [err |-> NoError, value |-> result]
    ELSE LET value == l[i]
         IN IF is_scalar(value)
            THEN flatten_elems(l, i + 1, prefix, SetItem(result, IndexKey(prefix, i - 1), value))
            ELSE LET r == flatten_dict(value, IndexKey(prefix, i - 1), result)
                 IN IF r.err # NoError THEN r
                    ELSE flatten_elems(l, i + 1, prefix, r.value)

\* ---- the specification of a flatten_dict call ----

MaxListLen == 2

FlatScalars == {S(1), S(2)}
PlainKeys == {Str("a"), Str("b")}
FlatKeys == PlainKeys \cup {<<"a", "/", "b">>, <<"a", "[", "0", "]">>, <<>>}

\* The nodes below the root: scalars, a foreign object, and sequences and
\* mappings of scalars.
FlatInner ==
    FlatScalars \cup {Other}
    \cup {L(l) : l \in SeqsUpTo(FlatScalars, MaxListLen)}
    \cup {D(f) : f \in UNION {[K -> FlatScalars] : K \in SUBSET PlainKeys}}

\* The roots: a scalar, a sequence, or a mapping of up to two keys.
FlatRoots ==
    {S(1)}
    \cup {L(l) : l \in SeqsUpTo(FlatInner, MaxListLen)}
    \cup {D(f) : f \in UNION {[K -> FlatInner] :
                        K \in {K \in SUBSET FlatKeys : Cardinality(K) <= 2}}}

InitFlatten ==
    /\ BuildIdle
    /\ \E d \in FlatRoots : call = [op |-> "flatten_dict", d |-> d]
    /\ ret = NotRun

\* flatten_dict(d): prefix '' and a fresh result.
CallFlattenDict ==
    /\ call.op = "flatten_dict" /\ ret = NotRun
    /\ LET r == flatten_dict(call.d, <<>>, EmptyMap)
       IN ret' = [err |-> r.err,
                  value |-> IF r.err = NoError THEN r.value ELSE EmptyMap]
    /\ UNCHANGED <<call, buildVars>>

NextFlatten == CallFlattenDict
SpecFlatten == InitFlatten /\ [][NextFlatten]_vars

\* ---- what the flattening is to be ----

\* The scalar leaves of node d: (path, value), the path being the sequence
\* of the mapping keys ([key |-> k]) and sequence indices ([idx |-> i]) that
\* lead to the leaf.
RECURSIVE Leaves(_, _)
Leaves(d, path) ==
    IF "sv" \in DOMAIN d THEN {<<path, d>>}
    ELSE IF "dv" \in DOMAIN d
    THEN UNION {Leaves(d.dv[k], Append(path, [key |-> k])) : k \in DOMAIN d.dv}
    ELSE IF "lv" \in DOMAIN d
    THEN UNION {Leaves(d.lv[i], Append(path, [idx |-> i - 1])) : i \in DOMAIN d.lv}
    ELSE {}

\* Whether some node of d is neither a mapping, a sequence nor a scalar.
RECURSIVE HasForeignNode(_)
HasForeignNode(d) ==
    IF "sv" \in DOMAIN d THEN FALSE
    ELSE IF "dv" \in DOMAIN d THEN \E k \in DOMAIN d.dv : HasForeignNode(d.dv[k])
    ELSE IF "lv" \in DOMAIN d THEN \E i \in DOMAIN d.lv : HasForeignNode(d.lv[i])
    ELSE TRUE

\* The keys of all mappings of d.
RECURSIVE AllKeys(_)
AllKeys(d) ==
    IF "dv" \in DOMAIN d
    THEN DOMAIN d.dv \cup UNION {AllKeys(d.dv[k]) : k \in DOMAIN d.dv}
    ELSE IF "lv" \in DOMAIN d THEN UNION {AllKeys(d.lv[i]) : i \in DOMAIN d.lv}
    ELSE {}

\* The path expression of a path: keys joined by '/', indices as '[i]', no
\* leading '/'.
RECURSIVE PathExpr(_)
PathExpr(path) ==
    IF path = <<>> THEN <<>>
    ELSE LET front == SubSeq(path, 1, Len(path) - 1)
             last == path[Len(path)]
         IN IF "idx" \in DOMAIN last
            THEN PathExpr(front) \o Str("[") \o IntStr(last.idx) \o Str("]")
            ELSE IF front = <<>> THEN last.key
            ELSE PathExpr(front) \o Str("/") \o last.key

\* The result holds exactly one entry per scalar leaf of d: the leaf's path
\* expression as key, the leaf as value.
OneEntryPerLeaf(d, result) ==
    LET leaves == Leaves(d, <<>>)
    IN  /\ Cardinality(DOMAIN result) = Cardinality(leaves)
        /\ \A leaf \in leaves :
              /\ PathExpr(leaf[1]) \in DOMAIN result
              /\ result[PathExpr(leaf[1])] = leaf[2]

\* C10 (as stated): for any nested structure flatten_dict returns exactly one
\* entry per scalar leaf, keyed by the leaf's path, no leaf lost or
\* overwritten, and raises only for a node that is neither a mapping, a
\* sequence nor a scalar.
C10_Original ==
    ret # NotRun =>
        /\ ret.err = NoError => OneEntryPerLeaf(call.d, ret.value)
        /\ ret.err # NoError => HasForeignNode(call.d)

\* A structure flatten_dict renders faithfully: the root is a mapping or a
\* sequence, and no mapping key is empty or holds a '/' or a '['.
Flattenable(d) ==
    /\ "sv" \notin DOMAIN d
    /\ \A k \in AllKeys(d) : k # <<>> /\ "/" \notin Range(k) /\ "[" \notin Range(k)

\* C10 (amended): for a structure whose root is a mapping or a sequence and
\* whose mapping keys are non-empty and hold no '/' and no '[', flatten_dict
\* raises iff some node is neither a mapping, a sequence nor a scalar, and
\* otherwise returns exactly one entry per scalar leaf, keyed by the leaf's
\* path expression and holding the leaf.
C10_Flatten ==
    (ret # NotRun /\ Flattenable(call.d)) =>
        /\ (ret.err # NoError) <=> HasForeignNode(call.d)
        /\ ret.err = NoError => OneEntryPerLeaf(call.d, ret.value)

\* C10 witness: the structure {a: {b: 1}, b: [2, 1]} has been flattened to
\* {a/b: 1, b[0]: 2, b[1]: 1}.
C10_Witness ==
    /\ ret # NotRun /\ ret.err = NoError
    /\ call.d = D((Str("a") :> D(Str("b") :> S(1))) @@ (Str("b") :> L(<<S(2), S(1)>>)))
    /\ ret.value = (<<"a", "/", "b">> :> S(1)) @@ (<<"b", "[", "0", "]">> :> S(2))
                     @@ (<<"b", "[", "1", "]">> :> S(1))

\* ------------------------------------------------------------------------
\* The build: entity maps, lookups and checks (src/build.py)
\* ------------------------------------------------------------------------

supported_ranks == {"lr", "hr"}
single_drop_conditions == {"Body Carve", "Tail Carve", "Shiny Drop", "Capture"}

\* The English names of the base maps, in file order. Entry i of a map has
\* the identifier idBase + i - 1.
ItemNames == <<"Potion", "Herb">>
LocationNames == <<"Swamp", "Forest">>
SkillNames == <<"Guard", "Attack">>
ArmorSetNames == <<"Bone", "Leather">>
MaxWeapons == 3
AllWeaponNames == <<"A", "B", "C", "D", "E">>
WeaponNames == SubSeq(AllWeaponNames, 1, MaxWeapons)
\* A name no base map holds.
Missing == "Nothing"

IdAt(i) == idBase + i - 1
IdsOf(names) == {IdAt(i) : i \in DOMAIN names}

\* A Python boolean.
B(b) == [bool |-> b]

\* Truth value testing ("if not field"): None, False and 0 are falsy.
Truthy(field) ==
    IF "none" \in DOMAIN field THEN FALSE
    ELSE IF "bool" \in DOMAIN field THEN field.bool
    ELSE field.sv # 0

KeyError == [kind |-> "KeyError"]

\* map.id_of('en', name) of the data reader: the identifier of the entry
\* with that English name. For an absent name it either returns None or
\* raises KeyError (idOfRaises): both are taken by build_weapons' pre-pass.
id_of(names, name) ==
    IF \E i \in DOMAIN names : names[i] = name
    THEN [err |-> NoError,
          value |-> S(IdAt(CHOOSE i \in DOMAIN names : names[i] = name))]
    ELSE IF idOfRaises THEN [err |-> KeyError, value |-> None]
    ELSE [err |-> NoError, value |-> None]

\* A check that never raises.
ensure_silent(field, error_message) == NoError

\* ensure (src/mhdata/util/__init__.py:9-12): the exception raised, or NoError.
ensure(field, error_message) ==
    IF ~Truthy(field) THEN [kind |-> "Exception", message |-> error_message]
    ELSE NoError

\* A warning check that raises like ensure.
ensure_warn_fatal(field, error_message) ==
    [err |-> ensure(field, error_message), printed |-> {}]

\* ensure_warn (src/mhdata/util/__init__.py:15-18): never raises; prints the
\* warning when the field is falsy.
ensure_warn(field, error_message) ==
    [err |-> NoError, printed |-> IF ~Truthy(field) THEN {error_message} ELSE {}]

\* "x_id = map.id_of('en', name); ensure(x_id, message)": the identifier, or
\* the exception of the lookup or of the check.
Resolve(names, name, error_message) ==
    LET r == id_of(names, name)
    IN IF r.err # NoError THEN r
       ELSE [err |-> ensure(r.value, error_message), value |-> r.value]

\* A loop of such lookups over the names refs, stopping at the first
\* exception: the identifiers resolved before it.
RECURSIVE ResolveAll(_, _, _, _)
ResolveAll(names, refs, what, ids) ==
    IF refs = <<>> THEN [err |-> NoError, ids |-> ids]
    ELSE LET r == Resolve(names, Head(refs), <<what, Head(refs)>>)
         IN IF r.err # NoError THEN [err |-> r.err, ids |-> ids]
            ELSE ResolveAll(names, Tail(refs), what, Append(ids, r.value))

\* ------------------------------------------------------------------------
\* validate_monster_rewards (src/build.py:40-65)
\* ------------------------------------------------------------------------

\* The (monster, condition, rank) groups of the monster map in the order the
\* three nested loops visit them.
RECURSIVE RewardGroups(_, _)
RewardGroups(map, i) ==
    IF i > Len(map) THEN <<>>
    ELSE [j \in DOMAIN map[i].rewards |->
            [monster |-> IdAt(i), condition |-> map[i].rewards[j].condition,
             rank |-> map[i].rewards[j].rank, rewards |-> map[i].rewards[j].rewards]]
         \o RewardGroups(map, i + 1)

Percentages(rewards) == [k \in DOMAIN rewards |-> rewards[k].percentage]
RewardItems(rewards) == [k \in DOMAIN rewards |-> rewards[k].item_en]

\* A sum check that asks for exactly 100 whatever the condition.
SumOkExact(condition, percentage_sum) == percentage_sum = 100

\* Lines 55-58: the condition tested by the sum warning.
SumOk(condition, percentage_sum) ==
    IF condition \in single_drop_conditions
    THEN percentage_sum = 100
    ELSE percentage_sum >= 100

\* The body of the innermost loop (lines 50-65) for one group.
ValidateGroup(g) ==
    LET rank_ok == ensure(B(g.rank \in supported_ranks), <<"Unsupported rank", g.rank>>)
        percentage_sum == SumSeq(Percentages(g.rewards))
        sum_check == ensure_warn(B(SumOk(g.condition, percentage_sum)),
                        [kind |-> "sum", monster |-> g.monster,
                         condition |-> g.condition, rank |-> g.rank])
        duplicates == get_duplicates(RewardItems(g.rewards))
        dup_check == IF g.condition \in single_drop_conditions
                     THEN ensure_warn(B(duplicates = <<>>),
                            [kind |-> "duplicate", monster |-> g.monster,
                             condition |-> g.condition, rank |-> g.rank,
                             duplicates |-> duplicates])
                     ELSE [err |-> NoError, printed |-> {}]
    IN  IF rank_ok # NoError THEN [err |-> rank_ok, printed |-> {}]
        ELSE IF sum_check.err # NoError THEN sum_check
        ELSE [err |-> dup_check.err, printed |-> sum_check.printed \cup dup_check.printed]

\* validate_monster_rewards over the groups from position i on.
RECURSIVE validate_monster_rewards(_, _, _)
validate_monster_rewards(groups, i, printed) ==
    IF i > Len(groups) THEN [err |-> NoError, printed |-> printed]
    ELSE LET r == ValidateGroup(groups[i])
         IN IF r.err # NoError THEN [err |-> r.err, printed |-> printed \cup r.printed]
            ELSE validate_monster_rewards(groups, i + 1, printed \cup r.printed)

\* ------------------------------------------------------------------------
\* The family builders (src/build.py:67-364). Each returns the exception
\* that ended it (or NoError) and the rows it had added to the session by
\* then. A row that owns association rows (a monster's rewards, an armor's
\* skills) carries them, as session.add cascades to them.
\* ------------------------------------------------------------------------

Row(table, id) == [table |-> table, id |-> id]

build_items == [err |-> NoError, rows |-> {Row("Item", id) : id \in IdsOf(ItemNames)}]
build_locations ==
    [err |-> NoError, rows |-> {Row("Location", id) : id \in IdsOf(LocationNames)}]
build_skills ==
    [err |-> NoError, rows |-> {Row("SkillTree", id) : id \in IdsOf(SkillNames)}]

\* The item names of a monster's rewards in the order of lines 97-99.
RECURSIVE RewardRefs(_, _)
RewardRefs(groups, j) ==
    IF j > Len(groups) THEN <<>>
    ELSE RewardItems(groups[j].rewards) \o RewardRefs(groups, j + 1)

\* build_monsters from entry i on (lines 77-123).
RECURSIVE build_monsters(_, _, _)
build_monsters(map, i, rows) ==
    IF i > Len(map) THEN [err |-> NoError, rows |-> rows]
    ELSE
    LET entry == map[i]
        rewards == ResolveAll(ItemNames, RewardRefs(entry.rewards, 1), "item reward", <<>>)
        habitats == ResolveAll(LocationNames, entry.habitats, "location", <<>>)
    IN  IF rewards.err # NoError THEN [err |-> rewards.err, rows |-> rows]
        ELSE IF habitats.err # NoError THEN [err |-> habitats.err, rows |-> rows]
        ELSE build_monsters(map, i + 1, rows \cup
                {[table |-> "Monster", id |-> IdAt(i),
                  rewards |-> rewards.ids, habitats |-> habitats.ids]})

\* The second loop of build_armor (lines 179-229) from entry i on.
RECURSIVE build_armor_entries(_, _, _)
build_armor_entries(map, i, rows) ==
    IF i > Len(map) THEN [err |-> NoError, rows |-> rows]
    ELSE
    LET entry == map[i]
        armorset == Resolve(ArmorSetNames, entry.set, <<"armorset", entry.set>>)
        skills == ResolveAll(SkillNames, entry.skills, "skill", <<>>)
        craft == ResolveAll(ItemNames, entry.craft, "item", <<>>)
    IN  IF armorset.err # NoError THEN [err |-> armorset.err, rows |-> rows]
        ELSE IF skills.err # NoError THEN [err |-> skills.err, rows |-> rows]
        ELSE IF craft.err # NoError THEN [err |-> craft.err, rows |-> rows]
        ELSE build_armor_entries(map, i + 1, rows \cup
                {[table |-> "Armor", id |-> IdAt(i), armorset_id |-> armorset.value,
                  skills |-> skills.ids, craft_items |-> craft.ids]})

\* build_armor: the armor sets first (lines 170-177), then the armor.
build_armor(map) ==
    build_armor_entries(map, 1, {Row("ArmorSet", id) : id \in IdsOf(ArmorSetNames)})

\* set.remove: KeyError when the element is not in the set.
SetRemove(set, x) ==
    IF x \in set THEN [err |-> NoError, set |-> set \ {x}]
    ELSE [err |-> KeyError, set |-> set]

\* "entry.get('previous', None)" is truthy: the key is there and not empty.
HasPrevious(entry) == entry.previous # ""

\* The pre-pass of build_weapons (lines 238-246) from entry i on: final is
\* all_final.
RECURSIVE final_prepass(_, _, _)
final_prepass(data, i, final) ==
    IF i > Len(data) THEN final
    ELSE IF ~HasPrevious(data[i]) THEN final_prepass(data, i + 1, final)
    ELSE
    LET prev == id_of(WeaponNames, data[i].previous)
        \* all_final.remove(prev_id); remove(None) raises KeyError as well
        removed == IF prev.err # NoError THEN [err |-> prev.err, set |-> final]
                   ELSE IF prev.value = None THEN [err |-> KeyError, set |-> final]
                   ELSE SetRemove(final, prev.value.sv)
    IN  \* except KeyError: pass
        final_prepass(data, i + 1, removed.set)

RecipeRows(weapon_id, recipe_type, ids) ==
    {[table |-> "WeaponRecipe", weapon_id |-> weapon_id, item_id |-> ids[k],
      recipe_type |-> recipe_type] : k \in DOMAIN ids}

\* The main loop of build_weapons (lines 248-297) from entry i on. The
\* recipe rows go to the session one by one, before the weapon itself.
RECURSIVE build_weapon_entries(_, _, _, _)
build_weapon_entries(data, final, i, rows) ==
    IF i > Len(data) THEN [err |-> NoError, rows |-> rows]
    ELSE
    LET entry == data[i]
        weapon_id == IdAt(i)
        previous == IF HasPrevious(entry)
                    THEN Resolve(WeaponNames, entry.previous, <<"weapon", entry.previous>>)
                    ELSE [err |-> NoError, value |-> None]
        craft == ResolveAll(ItemNames, entry.craft, "item", <<>>)
        upgrade == ResolveAll(ItemNames, entry.upgrade, "item", <<>>)
        craft_rows == RecipeRows(weapon_id, "craft", craft.ids)
        upgrade_rows == RecipeRows(weapon_id, "upgrade", upgrade.ids)
    IN  IF previous.err # NoError THEN [err |-> previous.err, rows |-> rows]
        ELSE IF craft.err # NoError THEN [err |-> craft.err, rows |-> rows \cup craft_rows]
        ELSE IF upgrade.err # NoError
        THEN [err |-> upgrade.err, rows |-> rows \cup craft_rows \cup upgrade_rows]
        ELSE build_weapon_entries(data, final, i + 1,
                rows \cup craft_rows \cup upgrade_rows \cup
                {[table |-> "Weapon", id |-> weapon_id,
                  craftable |-> entry.craft # <<>>,
                  final |-> weapon_id \in final,
                  previous_weapon_id |-> previous.value]})

\* build_weapons: the pre-pass, then the main loop.
build_weapons(data) ==
    LET final == final_prepass(data, 1, IdsOf(WeaponNames))
        r == build_weapon_entries(data, final, 1, {})
    IN [err |-> r.err, rows |-> r.rows, all_final |-> final]

\* build_decorations (lines 304-328) from entry i on.
RECURSIVE build_decorations(_, _, _)
build_decorations(map, i, rows) ==
    IF i > Len(map) THEN [err |-> NoError, rows |-> rows]
    ELSE
    LET entry == map[i]
        skill == Resolve(SkillNames, entry.skill_en, <<"skill", entry.skill_en>>)
        chances == ensure(B(entry.chances), <<"Missing chance data", IdAt(i)>>)
    IN  IF skill.err # NoError THEN [err |-> skill.err, rows |-> rows]
        ELSE IF chances # NoError THEN [err |-> chances, rows |-> rows]
        ELSE build_decorations(map, i + 1, rows \cup
                {[table |-> "Decoration", id |-> IdAt(i), skilltree_id |-> skill.value]})

\* build_charms (lines 333-362) from entry i on.
RECURSIVE build_charms(_, _, _)
build_charms(map, i, rows) ==
    IF i > Len(map) THEN [err |-> NoError, rows |-> rows]
    ELSE
    LET entry == map[i]
        skills == ResolveAll(SkillNames, entry.skills, "skill", <<>>)
        craft == ResolveAll(ItemNames, entry.craft, "item", <<>>)
    IN  IF skills.err # NoError THEN [err |-> skills.err, rows |-> rows]
        ELSE IF craft.err # NoError THEN [err |-> craft.err, rows |-> rows]
        ELSE build_charms(map, i + 1, rows \cup
                {[table |-> "Charm", id |-> IdAt(i), skills |-> skills.ids,
                  craft_items |-> craft.ids]})

\* ------------------------------------------------------------------------
\* build_database (src/build.py:368-391)
\* ------------------------------------------------------------------------

\* A program that leaves the session scope after build_weapons.
ProgramEarlyExit ==
    <<"recreate_database", "validate_monster_rewards", "enter_scope",
      "build_items", "build_locations", "build_monsters", "build_skills",
      "build_armor", "build_weapons", "exit_scope",
      "build_decorations", "build_charms", "print_finished">>

\* The steps of build_database in order (lines 377-391): the builders run
\* between the entry and the exit of "with db.session_scope(...)".
Program ==
    <<"recreate_database", "validate_monster_rewards", "enter_scope",
      "build_items", "build_locations", "build_monsters", "build_skills",
      "build_armor", "build_weapons", "build_decorations", "build_charms",
      "exit_scope", "print_finished">>

\* The step after a step that returned.
After(step) ==
    LET i == CHOOSE i \in DOMAIN Program : Program[i] = step
    IN IF i = Len(Program) THEN "finished" ELSE Program[i + 1]

\* Where an exception takes the run: through the exit of the session scope
\* when one is open, else straight out of build_database.
Raised == IF inScope THEN "rollback" ELSE "aborted"

\* A step that returned or raised err: the exception is kept with the step
\* it was raised in.
Continue(step, err) ==
    /\ pc' = IF err = NoError THEN After(step) ELSE Raised
    /\ error' = IF err = NoError THEN NoError ELSE [raised |-> err, at |-> step]

dataVars == <<idBase, idOfRaises, monster_map, armor_map, weapon_data,
              decoration_map, charm_map>>

\* db.recreate_database(output_filename): the file is deleted and created
\* anew with the empty schema.
RecreateDatabase ==
    /\ pc = "recreate_database"
    /\ committed' = {}
    /\ Continue("recreate_database", NoError)
    /\ UNCHANGED <<dataVars, session, inScope, warnings, all_final, callVars>>

ValidateMonsterRewards ==
    /\ pc = "validate_monster_rewards"
    /\ LET r == validate_monster_rewards(RewardGroups(monster_map, 1), 1, {})
       IN /\ warnings' = warnings \cup r.printed
          /\ Continue("validate_monster_rewards", r.err)
    /\ UNCHANGED <<dataVars, session, committed, inScope, all_final, callVars>>

\* Entry of "with db.session_scope(sessionbuilder) as session".
EnterScope ==
    /\ pc = "enter_scope"
    /\ inScope' = TRUE
    /\ session' = {}
    /\ Continue("enter_scope", NoError)
    /\ UNCHANGED <<dataVars, committed, warnings, all_final, callVars>>

\* A builder call that returned or raised r.err having added r.rows.
Builder(step, r) ==
    /\ pc = step
    /\ session' = session \cup r.rows
    /\ Continue(step, r.err)

BuildItems ==
    /\ Builder("build_items", build_items)
    /\ UNCHANGED <<dataVars, committed, inScope, warnings, all_final, callVars>>

BuildLocations ==
    /\ Builder("build_locations", build_locations)
    /\ UNCHANGED <<dataVars, committed, inScope, warnings, all_final, callVars>>

BuildMonsters ==
    /\ Builder("build_monsters", build_monsters(monster_map, 1, {}))
    /\ UNCHANGED <<dataVars, committed, inScope, warnings, all_final, callVars>>

BuildSkills ==
    /\ Builder("build_skills", build_skills)
    /\ UNCHANGED <<dataVars, committed, inScope, warnings, all_final, callVars>>

BuildArmor ==
    /\ Builder("build_armor", build_armor(armor_map))
    /\ UNCHANGED <<dataVars, committed, inScope, warnings, all_final, callVars>>

BuildWeapons ==
    /\ Builder("build_weapons", build_weapons(weapon_data))
    /\ all_final' = build_weapons(weapon_data).all_final
    /\ UNCHANGED <<dataVars, committed, inScope, warnings, callVars>>

BuildDecorations ==
    /\ Builder("build_decorations", build_decorations(decoration_map, 1, {}))
    /\ UNCHANGED <<dataVars, committed, inScope, warnings, all_final, callVars>>

BuildCharms ==
    /\ Builder("build_charms", build_charms(charm_map, 1, {}))
    /\ UNCHANGED <<dataVars, committed, inScope, warnings, all_final, callVars>>

\* Exit of the session scope without an exception: the pending rows are
\* committed.
ExitScope ==
    /\ pc = "exit_scope"
    /\ committed' = committed \cup session
    /\ session' = {}
    /\ inScope' = FALSE
    /\ Continue("exit_scope", NoError)
    /\ UNCHANGED <<dataVars, warnings, all_final, callVars>>

\* Exit of the session scope with an exception: the transaction is rolled
\* back and the exception goes on to the caller.
Rollback ==
    /\ pc = "rollback"
    /\ session' = {}
    /\ inScope' = FALSE
    /\ pc' = "aborted"
    /\ UNCHANGED <<dataVars, committed, warnings, error, all_final, callVars>>

\* print("Finished build")
PrintFinished ==
    /\ pc = "print_finished"
    /\ Continue("print_finished", NoError)
    /\ UNCHANGED <<dataVars, session, committed, inScope, warnings, all_final, callVars>>

NextBuild ==
    \/ RecreateDatabase \/ ValidateMonsterRewards \/ EnterScope
    \/ BuildItems \/ BuildLocations \/ BuildMonsters \/ BuildSkills
    \/ BuildArmor \/ BuildWeapons \/ BuildDecorations \/ BuildCharms
    \/ ExitScope \/ Rollback \/ PrintFinished

\* ---- the content of the entity maps ----

MaxRewards == 2

Reward(item_en, percentage) == [item_en |-> item_en, percentage |-> percentage]
Group(condition, rank, rewards) ==
    [condition |-> condition, rank |-> rank, rewards |-> rewards]

\* A well-formed entry of each family; its references are to the second
\* entry of the base maps.
DefaultMonster ==
    [rewards |-> <<Group("Body Carve", "lr", <<Reward("Herb", 100)>>)>>,
     habitats |-> <<"Forest">>]
DefaultArmor == [set |-> "Leather", skills |-> <<"Attack">>, craft |-> <<"Herb">>]
DefaultWeapon == [previous |-> "", craft |-> <<"Herb">>, upgrade |-> <<>>]
DefaultDecoration == [skill_en |-> "Attack", chances |-> TRUE]
DefaultCharm == [skills |-> <<"Attack">>, craft |-> <<"Herb">>]
DefaultWeapons == [i \in 1..MaxWeapons |-> DefaultWeapon]

\* A name of the map, or one it does not hold.
Names(names) == Range(names) \cup {Missing}

\* The lists of references written in an entry: none, one name, or the
\* second name of the map followed by another.
RefLists(names) ==
    {<<>>} \cup {<<n>> : n \in Names(names)}
    \cup {<<names[2], n>> : n \in Names(names) \ {names[2]}}

\* With an entry e under test, a map of e alone or of e after a well-formed
\* entry.
MapsWith(default, e) == {<<e>>, <<default, e>>}

\* Reward groups for the validation: any supported or unsupported rank,
\* percentages that sum below, to, and above 100, repeated items.
RichRewards ==
    SeqsUpTo({Reward(i, p) : i \in {"Potion", "Herb"}, p \in {50, 60}}, MaxRewards)
RichGroups ==
    {Group(c, r, rs) : c \in {"Body Carve", "Quest Reward"},
                       r \in {"lr", "hr", "g"}, rs \in RichRewards}
SecondGroups ==
    {Group(c, r, rs) : c \in {"Tail Carve", "Shiny Drop", "Capture", "Investigation"},
                       r \in {"lr", "g"},
                       rs \in {<<Reward("Herb", 50)>>,
                               <<Reward("Herb", 50), Reward("Herb", 50)>>}}
RichMonsterMaps ==
    {<<[rewards |-> <<g>>, habitats |-> <<"Forest">>]>> : g \in RichGroups}
    \cup {<<DefaultMonster, [rewards |-> <<g>>, habitats |-> <<"Forest">>]>> : g \in RichGroups}
    \cup {<<[rewards |-> <<g1, g2>>, habitats |-> <<"Forest">>]>> :
            g1 \in RichGroups, g2 \in SecondGroups}

\* Monsters whose reward item and habitats may not resolve.
RefMonsterMaps ==
    UNION {MapsWith(DefaultMonster,
              [rewards |-> <<Group("Capture", "hr", <<Reward(x, 50), Reward("Herb", 50)>>)>>,
               habitats |-> h]) :
           x \in Names(ItemNames), h \in RefLists(LocationNames)}

RefArmorMaps ==
    UNION {MapsWith(DefaultArmor, [set |-> st, skills |-> sk, craft |-> cr]) :
           st \in Names(ArmorSetNames), sk \in RefLists(SkillNames),
           cr \in RefLists(ItemNames)}

\* Weapon data: any upgrade graph over the weapons (also with names that do
\* not resolve), or well-formed weapons but for the recipes of one.
RefWeaponData ==
    {[i \in 1..MaxWeapons |-> [DefaultWeapon EXCEPT !.previous = p[i]]] :
        p \in [1..MaxWeapons -> {""} \cup Names(WeaponNames)]}
    \cup {[DefaultWeapons EXCEPT ![i] = [previous |-> "", craft |-> cr, upgrade |-> up]] :
            i \in {1, MaxWeapons}, cr \in RefLists(ItemNames), up \in RefLists(ItemNames)}

RefDecorationMaps ==
    UNION {MapsWith(DefaultDecoration, [skill_en |-> sk, chances |-> ch]) :
           sk \in Names(SkillNames), ch \in BOOLEAN}

RefCharmMaps ==
    UNION {MapsWith(DefaultCharm, [skills |-> sk, craft |-> cr]) :
           sk \in RefLists(SkillNames), cr \in RefLists(ItemNames)}

\* The rows a previous build left in the database file.
StaleRows == {Row("Item", 99)}

\* The entity maps as loaded at module scope: well-formed but for one family,
\* whose entries are drawn from the sets above.
InitData ==
    \/ /\ monster_map \in RichMonsterMaps /\ idOfRaises = FALSE
       /\ armor_map = <<DefaultArmor>> /\ weapon_data = DefaultWeapons
       /\ decoration_map = <<DefaultDecoration>> /\ charm_map = <<DefaultCharm>>
    \/ /\ idOfRaises \in BOOLEAN
       /\ \/ /\ monster_map \in RefMonsterMaps
             /\ armor_map = <<DefaultArmor>> /\ weapon_data = DefaultWeapons
             /\ decoration_map = <<DefaultDecoration>> /\ charm_map = <<DefaultCharm>>
          \/ /\ armor_map \in RefArmorMaps
             /\ monster_map = <<DefaultMonster>> /\ weapon_data = DefaultWeapons
             /\ decoration_map = <<DefaultDecoration>> /\ charm_map = <<DefaultCharm>>
          \/ /\ weapon_data \in RefWeaponData
             /\ monster_map = <<DefaultMonster>> /\ armor_map = <<DefaultArmor>>
             /\ decoration_map = <<DefaultDecoration>> /\ charm_map = <<DefaultCharm>>
          \/ /\ decoration_map \in RefDecorationMaps
             /\ monster_map = <<DefaultMonster>> /\ armor_map = <<DefaultArmor>>
             /\ weapon_data = DefaultWeapons /\ charm_map = <<DefaultCharm>>
          \/ /\ charm_map \in RefCharmMaps
             /\ monster_map = <<DefaultMonster>> /\ armor_map = <<DefaultArmor>>
             /\ weapon_data = DefaultWeapons /\ decoration_map = <<DefaultDecoration>>

InitBuild ==
    /\ CallIdle
    /\ pc = Program[1]
    /\ idBase \in {0, 1}
    /\ InitData
    /\ session = {} /\ committed = StaleRows /\ inScope = FALSE
    /\ warnings = {} /\ error = NoError /\ all_final = {}

SpecBuild == InitBuild /\ [][NextBuild]_vars

\* ---- the references of the entity maps ----

\* Whether some name-based reference that a builder processes names no
\* entry of the map it is looked up in.
UnresolvedIn(refs, names) == \E k \in DOMAIN refs : refs[k] \notin Range(names)

UnresolvedMonsterRef ==
    \E i \in DOMAIN monster_map :
        \/ UnresolvedIn(RewardRefs(monster_map[i].rewards, 1), ItemNames)
        \/ UnresolvedIn(monster_map[i].habitats, LocationNames)
UnresolvedArmorRef ==
    \E i \in DOMAIN armor_map :
        \/ armor_map[i].set \notin Range(ArmorSetNames)
        \/ UnresolvedIn(armor_map[i].skills, SkillNames)
        \/ UnresolvedIn(armor_map[i].craft, ItemNames)
UnresolvedWeaponRef ==
    \E i \in DOMAIN weapon_data :
        \/ HasPrevious(weapon_data[i]) /\ weapon_data[i].previous \notin Range(WeaponNames)
        \/ UnresolvedIn(weapon_data[i].craft, ItemNames)
        \/ UnresolvedIn(weapon_data[i].upgrade, ItemNames)
UnresolvedDecorationRef ==
    \E i \in DOMAIN decoration_map : decoration_map[i].skill_en \notin Range(SkillNames)
UnresolvedCharmRef ==
    \E i \in DOMAIN charm_map :
        \/ UnresolvedIn(charm_map[i].skills, SkillNames)
        \/ UnresolvedIn(charm_map[i].craft, ItemNames)
UnresolvedReference ==
    \/ UnresolvedMonsterRef \/ UnresolvedArmorRef \/ UnresolvedWeaponRef
    \/ UnresolvedDecorationRef \/ UnresolvedCharmRef

\* C1: when a name-based reference of any builder's entries (reward item,
\* habitat location, armor set, skill, recipe item, weapon predecessor) names
\* no entry of its map, build_database never leaves the session scope
\* normally and never reaches "Finished build": the run goes on only until
\* it is aborted with an exception.
C1_UnresolvedAborts ==
    UnresolvedReference =>
        /\ pc \notin {"exit_scope", "print_finished", "finished"}
        /\ pc = "aborted" => error # NoError
        /\ pc = "aborted" \/ ENABLED NextBuild

\* C1 witness: a build whose last charm crafts from an item that does not
\* exist has run up to build_charms and was aborted there by ensure.
C1_Witness ==
    /\ pc = "aborted"
    /\ charm_map[Len(charm_map)].craft = <<"Herb", Missing>>
    /\ error = [raised |-> [kind |-> "Exception", message |-> <<"item", Missing>>],
                at |-> "build_charms"]

\* The rows of a completed build: every entry of every family.
HasAllRows(rows) ==
    /\ \A id \in IdsOf(ItemNames) : \E r \in rows : r.table = "Item" /\ r.id = id
    /\ \A id \in IdsOf(LocationNames) : \E r \in rows : r.table = "Location" /\ r.id = id
    /\ \A i \in DOMAIN monster_map : \E r \in rows : r.table = "Monster" /\ r.id = IdAt(i)
    /\ \A id \in IdsOf(SkillNames) : \E r \in rows : r.table = "SkillTree" /\ r.id = id
    /\ \A id \in IdsOf(ArmorSetNames) : \E r \in rows : r.table = "ArmorSet" /\ r.id = id
    /\ \A i \in DOMAIN armor_map : \E r \in rows : r.table = "Armor" /\ r.id = IdAt(i)
    /\ \A i \in DOMAIN weapon_data : \E r \in rows : r.table = "Weapon" /\ r.id = IdAt(i)
    /\ \A i \in DOMAIN weapon_data :
          \A k \in DOMAIN weapon_data[i].craft :
             \E r \in rows : r.table = "WeaponRecipe" /\ r.weapon_id = IdAt(i)
    /\ \A i \in DOMAIN decoration_map :
          \E r \in rows : r.table = "Decoration" /\ r.id = IdAt(i)
    /\ \A i \in DOMAIN charm_map : \E r \in rows : r.table = "Charm" /\ r.id = IdAt(i)

\* C2: a run commits the rows of all eight families or none. Once the
\* database is recreated it holds a row only after build_charms has
\* completed and the scope was left normally, and then it holds the rows of
\* every family; a run ended by an exception, wherever raised, leaves the
\* database without any row.
C2_AllOrNothing ==
    pc # "recreate_database" =>
        /\ pc = "aborted" => committed = {}
        /\ committed # {} =>
              /\ pc \in {"print_finished", "finished"}
              /\ error = NoError
              /\ HasAllRows(committed)
        /\ pc \in {"print_finished", "finished"} => HasAllRows(committed)

\* C2 witness: a build was aborted by the second recipe item of the last
\* weapon, after the armor sets, the earlier weapons and that weapon's first
\* recipe row had gone to the session; nothing is committed.
C2_Witness ==
    /\ pc = "aborted" /\ idBase = 1
    /\ weapon_data[MaxWeapons].upgrade = <<"Herb", Missing>>
    /\ error.at = "build_weapons"
    /\ committed = {}

\* ---- the warnings of the validation ----

\* The number of positions of a sequence that hold x.
Occurrences(seq, x) == Cardinality({k \in DOMAIN seq : seq[k] = x})

\* What a warning says of its group, the listed duplicates left aside.
Subject(w) ==
    [kind |-> w.kind, monster |-> w.monster, condition |-> w.condition, rank |-> w.rank]

\* The warnings the rule of the reward groups asks for the group g.
ExpectedWarnings(g) ==
    LET percentage_sum == SumSeq(Percentages(g.rewards))
        items == RewardItems(g.rewards)
        single == g.condition \in {"Body Carve", "Tail Carve", "Shiny Drop", "Capture"}
        sum_warning == IF single THEN percentage_sum # 100 ELSE percentage_sum < 100
        duplicate_warning == single /\ \E x \in Range(items) : Occurrences(items, x) > 1
    IN  {[kind |-> "sum", monster |-> g.monster, condition |-> g.condition,
          rank |-> g.rank] : b \in {TRUE} \cap {sum_warning}}
        \cup {[kind |-> "duplicate", monster |-> g.monster, condition |-> g.condition,
               rank |-> g.rank] : b \in {TRUE} \cap {duplicate_warning}}

\* The groups of the monster map and the position of the first one whose
\* rank is not supported (one past the end when every rank is supported).
AllGroups == RewardGroups(monster_map, 1)
Unsupported == {k \in DOMAIN AllGroups : AllGroups[k].rank \notin {"lr", "hr"}}
FirstUnsupported ==
    IF Unsupported = {} THEN Len(AllGroups) + 1
    ELSE CHOOSE k \in Unsupported : \A j \in Unsupported : k <= j
AllRanksSupported == Unsupported = {}

ValidationEnded == pc \notin {"recreate_database", "validate_monster_rewards"}
ValidationRaised == error # NoError /\ error.at = "validate_monster_rewards"

\* C5 as stated: once validate_monster_rewards has ended, the warnings printed
\* are those the rule asks for, for every group of the monster map.
C5_Original ==
    ValidationEnded =>
        {Subject(w) : w \in warnings}
            = UNION {ExpectedWarnings(AllGroups[k]) : k \in DOMAIN AllGroups}

\* C5 (amended): once validate_monster_rewards has ended, the warnings printed
\* are those the rule asks for (single-drop condition: sum warning iff the sum
\* is not 100, duplicate warning iff an item repeats; other condition: sum
\* warning iff the sum is below 100, never a duplicate warning), for every
\* group visited before the first group with an unsupported rank, which are
\* all the groups when every rank is lr or hr; a duplicate warning lists the
\* repeated items.
C5_Warnings ==
    ValidationEnded =>
        /\ {Subject(w) : w \in warnings}
              = UNION {ExpectedWarnings(AllGroups[k]) : k \in 1..(FirstUnsupported - 1)}
        /\ \A w \in warnings :
              w.kind = "duplicate" =>
                 /\ w.duplicates # <<>>
                 /\ \E k \in 1..(FirstUnsupported - 1) :
                       /\ Subject(w).monster = AllGroups[k].monster
                       /\ Subject(w).condition = AllGroups[k].condition
                       /\ \A x \in Range(w.duplicates) :
                             Occurrences(RewardItems(AllGroups[k].rewards), x) > 1

\* C5 witness: the validation has ended for a monster whose Quest Reward
\* group sums to 120 with a repeated item (no warning) and whose Tail Carve
\* group sums to 100 with a repeated item (the duplicate warning alone).
C5_Witness ==
    /\ pc = "enter_scope"
    /\ monster_map =
          <<[rewards |-> <<Group("Quest Reward", "hr",
                                 <<Reward("Herb", 60), Reward("Herb", 60)>>),
                           Group("Tail Carve", "lr",
                                 <<Reward("Herb", 50), Reward("Herb", 50)>>)>>,
             habitats |-> <<"Forest">>]>>
    /\ {Subject(w) : w \in warnings} =
          {[kind |-> "duplicate", monster |-> IdAt(1), condition |-> "Tail Carve",
            rank |-> "lr"]}

\* C6 as stated: whatever the rewards hold, validate_monster_rewards never
\* raises.
C6_Original == ~ValidationRaised

\* C6 (amended): provided every rank key of the rewards is lr or hr,
\* validate_monster_rewards only prints its warnings and never raises,
\* whatever the conditions, percentages and duplicates, and build_database
\* goes on to open the session scope; with another rank key it raises and
\* the build is aborted before the scope.
C6_NonFatal ==
    /\ AllRanksSupported => ~ValidationRaised
    /\ AllRanksSupported /\ ValidationEnded /\ ~inScope /\ error = NoError
          => pc \in {"enter_scope", "print_finished", "finished"}
    /\ ~AllRanksSupported /\ ValidationEnded =>
          /\ pc = "aborted"
          /\ error = [raised |-> [kind |-> "Exception",
                                  message |-> <<"Unsupported rank",
                                                AllGroups[FirstUnsupported].rank>>],
                      at |-> "validate_monster_rewards"]

\* C6 witness: a build whose validation printed a sum and a duplicate
\* warning has finished.
C6_Witness ==
    /\ pc = "finished"
    /\ AllRanksSupported
    /\ {w.kind : w \in warnings} = {"sum", "duplicate"}
    /\ committed # {}

\* ---- the final flag ----

WeaponRows == {r \in session \cup committed : r.table = "Weapon"}

\* Whether weapon j declares a previous name that resolves to weapon i.
NamesAsPrevious(j, i) ==
    HasPrevious(weapon_data[j]) /\ weapon_data[j].previous = WeaponNames[i]

\* C7: the persisted flag final of every weapon is true iff no other weapon
\* of the family declares a previous name that resolves to it.
C7_Original ==
    \A r \in WeaponRows :
        \A i \in DOMAIN weapon_data :
            r.id = IdAt(i) =>
                (r.final <=> ~\E j \in DOMAIN weapon_data \ {i} : NamesAsPrevious(j, i))

\* What the pre-pass computes: final is true iff no weapon at all, the
\* weapon itself included, declares a previous name that resolves to it.
FinalCountsOwnName ==
    \A r \in WeaponRows :
        \A i \in DOMAIN weapon_data :
            r.id = IdAt(i) =>
                (r.final <=> ~\E j \in DOMAIN weapon_data : NamesAsPrevious(j, i))

\* ---- references to the entity with identifier 0 ----

\* Every rank is supported and every decoration has its chance data: no
\* check other than those of the references can fail.
OtherChecksPass ==
    /\ AllRanksSupported
    /\ \A i \in DOMAIN decoration_map : decoration_map[i].chances

\* C11: when every referenced English name is the name of an entity of the
\* right family, whatever the identifiers are (0 included), no ensure check
\* of a builder fails: the run is never aborted or rolled back.
C11_Original ==
    ~UnresolvedReference /\ OtherChecksPass =>
        /\ error = NoError
        /\ pc \notin {"rollback", "aborted"}

\* What holds instead: such a build goes through when no entity has the
\* identifier 0.
ResolvedBuildsWithoutIdZero ==
    ~UnresolvedReference /\ OtherChecksPass /\ idBase # 0 =>
        /\ error = NoError
        /\ pc \notin {"rollback", "aborted"}

\* A build of well-formed data is aborted by the reference check of an
\* existing entity only when that entity has the identifier 0.
IdZeroFailsEnsure ==
    ~UnresolvedReference /\ OtherChecksPass /\ error # NoError =>
        /\ idBase = 0
        /\ error.raised.kind = "Exception"
        /\ error.raised.message[2] \in
              {ItemNames[1], LocationNames[1], SkillNames[1], ArmorSetNames[1],
               WeaponNames[1]}

\* ---- the sources of a joindicts call ----

\* The contents of source i, nested mappings and sequences included, before
\* and after the call.
SourceBefore(i) == Deref(ret.before, R(ret.sources[i])).dv
SourceAfter(i) == Deref(ret.after, R(ret.sources[i])).dv

\* C12: after joindicts(dest, s1, ..., sn), whether it returned or raised,
\* every source and everything nested in it has the contents it had before
\* the call.
C12_Original ==
    ret # NotRun =>
        \A i \in DOMAIN ret.sources :
            /\ SourceBefore(i) = call.sources[i]
            /\ SourceAfter(i) = SourceBefore(i)

\* What holds instead: the last source is never changed, so a call with one
\* source changes dest alone; and a source that was changed had put a nested
\* mapping under a key that dest did not hold, which a later source carries
\* as a mapping too.
SourcesKeptUpToAliasing ==
    ret # NotRun =>
        \A i \in DOMAIN ret.sources :
            /\ i = Len(ret.sources) => SourceAfter(i) = SourceBefore(i)
            /\ SourceAfter(i) # SourceBefore(i) =>
                  \E k \in DOMAIN call.sources[i] :
                     /\ k \notin DOMAIN call.dest
                     /\ "dv" \in DOMAIN call.sources[i][k]
                     /\ \E j \in (i + 1)..Len(call.sources) :
                           /\ k \in DOMAIN call.sources[j]
                           /\ "dv" \in DOMAIN call.sources[j][k]

\* After a call that took a nested mapping from a source, dest and that
\* source hold one and the same object.
DestSharesSourceMapping ==
    ret # NotRun =>
        \A i \in DOMAIN ret.sources :
            SourceAfter(i) # SourceBefore(i) =>
                \E k \in DOMAIN ret.after[ret.dest] :
                    /\ k \in DOMAIN ret.after[ret.sources[i]]
                    /\ ret.after[ret.dest][k] = ret.after[ret.sources[i]][k]
                    /\ "ref" \in DOMAIN ret.after[ret.dest][k]

====
